---- MODULE Spec2Model ----
(***************************************************************************)
(* Model of the generic TTL cache of tauri-dashboard/src-tauri/src/cache.rs *)
(* (struct Cache<T>): a HashMap behind a tokio RwLock, three counters, and  *)
(* the operations get, set, set_with_ttl, remove, clear, cleanup_expired    *)
(* and get_stats, called concurrently by a fixed set of tasks.              *)
(*                                                                         *)
(* Granularity: one action per stretch of code between two suspension      *)
(* points (.await) at which the outcome can depend on another task.  The   *)
(* counter locks (hits, misses, evictions) are only ever held for the one  *)
(* statement that reads or bumps the counter, so that statement is one     *)
(* atomic step.  The data lock is modelled explicitly (lock_readers,       *)
(* lock_writer) because set_with_ttl and cleanup_expired keep it across    *)
(* the await on the evictions lock, and get/get_stats keep the read guard  *)
(* across the awaits on the counter locks.                                 *)
(***************************************************************************)
EXTENDS Integers, FiniteSets, Sequences, TLC

\* ---------------------------------------------------------------- bounds
\* the clock runs from 0 to MaxTime
MaxTime == 2
\* calls made by a lone caller
MaxOps == 4
\* calls made, in total, by two concurrent callers
MaxConcOps == 3

\* ------------------------------------------------------------- universes
Procs == {1, 2}
Keys == {"a", "b", "c"}
\* Option<T>::None as returned by get / remove
None == 0
\* Option<DateTime<Utc>>::None in CacheEntry.expires_at
NoTime == -9
\* ttl_seconds: Option<u64> == None
NoTtl == -1
TtlArgs == {NoTtl, 0, 1}
\* u64 and i64 (ttl_seconds, and its conversion on line 87) at a width of
\* TtlBits bits: a ttl is one of 0 .. 2^TtlBits - 1
TtlBits == 3
\* the longest duration, in seconds, that chrono::Duration::seconds and the
\* addition to a DateTime accept, at the scale of TtlBits; beyond it line 87
\* panics inside chrono
DurationMax == 2
MaxEntriesChoices == {1, 2}
\* the clock may tick between the two reads of it within one set_with_ttl
SkewChoices == {0, 1}
DefaultTtlChoices == {0, 1}
NoKey == "-"

VARIABLES
    data,                \* Cache.data: the HashMap, a function on the keys present
    hits,                \* Cache.hits
    misses,              \* Cache.misses
    evictions,           \* Cache.evictions
    max_entries,         \* Cache.max_entries
    default_ttl_seconds, \* Cache.default_ttl_seconds
    now,                 \* the clock read by Utc::now()
    lock_readers,        \* tasks holding a read guard of Cache.data
    lock_writer,         \* the task holding the write guard of Cache.data, or 0
    pr,                  \* per task: position in the running call, arguments, locals
    last,                \* the call that returned last: arguments, locals, result
    nops,                \* number of calls started
    callers,             \* the tasks that call the cache in this run
    nkeys,               \* number of keys of KeyOrder passed to a call so far
    gets,                \* history: how many get calls returned a value / nothing
    purged,              \* history: entries removed on line 80 (capacity eviction) or 125 (cleanup)
    lazy,                \* history: entries removed on line 53 (get's lazy expiry)
    purged_keys,         \* history: keys removed as expired (lines 53, 125) and not inserted since
    stored               \* history: per key, the value of the last insert (line 98) under it, or None

vars == <<data, hits, misses, evictions, max_entries, default_ttl_seconds,
          now, lock_readers, lock_writer, pr, last, nops, callers, nkeys, gets, purged, lazy, purged_keys,
          stored>>

\* ------------------------------------------------------------ CacheEntry
\* CacheEntry { data, created_at, expires_at }.  The field ttl is a history
\* field: the effective ttl (line 85) the entry was built with.
CacheEntry(value, created_at, expires_at, ttl) ==
    [data |-> value, created_at |-> created_at, expires_at |-> expires_at, ttl |-> ttl]

NoEntry == CacheEntry(None, NoTime, NoTime, 0)

\* HashMap::new()
EmptyMap == [k \in {} |-> NoEntry]

\* Variant of MapRemove: the key is left in the map.
MapRemoveNothing(m, k) == m

\* HashMap::remove
MapRemove(m, k) == [kk \in (DOMAIN m) \ {k} |-> m[kk]]

\* Variant of MapInsert: a key that is present keeps its entry.
MapInsertIfAbsent(m, k, e) == [kk \in (DOMAIN m) \cup {k} |-> IF kk \in DOMAIN m THEN m[kk] ELSE e]

\* HashMap::insert
MapInsert(m, k, e) == [kk \in (DOMAIN m) \cup {k} |-> IF kk = k THEN e ELSE m[kk]]

\* Variant of Cleared: the map is left as it was.
ClearedNothing(m) == m

\* clear, line 108: data.clear()
Cleared(m) == EmptyMap

\* Variant of Incr: the update is lost.
IncrLost(c) == c

\* lines 54, 59, 62, 81, 126: *self.<counter>.write().await += 1
Incr(c) == c + 1

\* data.len()
MapLen(m) == Cardinality(DOMAIN m)

\* Variants of IsExpired: an entry is still served one tick past its expiry;
\* an entry counts as expired at its expiry time already.
IsExpiredLate(entry, t) == entry.expires_at # NoTime /\ t > entry.expires_at + 1
IsExpiredAtOrAfter(entry, t) == entry.expires_at # NoTime /\ t >= entry.expires_at

\* get, lines 50-51, and cleanup_expired, lines 117-118:
\* if let Some(expires_at) = entry.expires_at { if now > expires_at
IsExpired(entry, t) == entry.expires_at # NoTime /\ t > entry.expires_at

\* Variants of NeedsEviction: the capacity test is off by one; the test forgets
\* that an overwrite adds no key.
NeedsEvictionOffByOne(m, k) == MapLen(m) > max_entries /\ k \notin DOMAIN m
NeedsEvictionAnyKey(m, k) == MapLen(m) >= max_entries

\* set_with_ttl, line 75: data.len() >= self.max_entries && !data.contains_key(&key)
NeedsEviction(m, k) == MapLen(m) >= max_entries /\ k \notin DOMAIN m

\* Variant of OldestKeys: max_by_key in place of min_by_key.
NewestKeys(m) == {k \in DOMAIN m : \A kk \in DOMAIN m : m[k].created_at >= m[kk].created_at}

\* set_with_ttl, lines 77-79: data.iter().min_by_key(|(_, entry)| entry.created_at).
\* The HashMap's iteration order is arbitrary, so among entries of equal
\* created_at any one may come first: the set of keys min_by_key may return.
OldestKeys(m) == {k \in DOMAIN m : \A kk \in DOMAIN m : m[k].created_at <= m[kk].created_at}

\* set_with_ttl, line 85: ttl_seconds.unwrap_or(self.default_ttl_seconds)
EffectiveTtl(ttl_seconds) == IF ttl_seconds = NoTtl THEN default_ttl_seconds ELSE ttl_seconds

\* set_with_ttl, line 87: ttl as i64, the two's complement reading of the u64
AsI64(ttl) == IF ttl < 2^(TtlBits - 1) THEN ttl ELSE ttl - 2^TtlBits

\* The ttls with which line 87 yields a time: chrono accepts the converted
\* number of seconds.  With any other ttl the call panics inside chrono; such
\* calls are not modelled.
InRange(ttl) == AsI64(ttl) >= -DurationMax /\ AsI64(ttl) <= DurationMax

\* ttl_seconds over the whole width: None, or any u64 that line 87 accepts
WideTtlArgs == {NoTtl} \cup {ttl \in 0..(2^TtlBits - 1) : InRange(ttl)}

\* set_with_ttl, lines 86-90:
\* if ttl > 0 { Some(Utc::now() + chrono::Duration::seconds(ttl as i64)) } else { None }
ExpiresAt(ttl, t) == IF ttl > 0 THEN t + AsI64(ttl) ELSE NoTime

\* set_with_ttl, lines 85-96: the entry built from the arguments; t1 is the clock
\* read on line 87, t2 the clock read on line 94.
NewEntry(value, ttl_seconds, t1, t2) ==
    CacheEntry(value, t2, ExpiresAt(EffectiveTtl(ttl_seconds), t1), EffectiveTtl(ttl_seconds))

\* Variant of ExpiredKeys: an entry is collected at its expiry time already.
ExpiredKeysAtOrAfter(m, t) ==
    {k \in DOMAIN m : m[k].expires_at # NoTime /\ t >= m[k].expires_at}

\* cleanup_expired, lines 116-122: the keys pushed to expired_keys
ExpiredKeys(m, t) == {k \in DOMAIN m : IsExpired(m[k], t)}

\* Variant of HitRate: the share of misses.
HitRateOfMisses(h, m) == IF h + m > 0 THEN [num |-> 100 * m, den |-> h + m] ELSE [num |-> 0, den |-> 1]

\* get_stats, lines 136-141: total_requests = hits + misses;
\* hit_rate = if total_requests > 0 { (hits as f64 / total_requests as f64) * 100.0 } else { 0.0 }.
\* The quotient is kept as a fraction num / den; the rounding of f64 is left out
\* (the counters stay far below 2^53, where u64 as f64 is exact).
HitRate(h, m) == IF h + m > 0 THEN [num |-> 100 * h, den |-> h + m] ELSE [num |-> 0, den |-> 1]

\* --------------------------------------------------------------- tasks
\* A task between calls.  During a call the record holds the call's arguments
\* and locals; when the call returns the record is copied to last (with the
\* result in ret) and the task is Idle again.
Idle ==
    [pc |-> "idle", op |-> "none", task |-> 0, key |-> NoKey, value |-> None,
     ttl_seconds |-> NoTtl, ret |-> None, entry |-> NoEntry, tchk |-> NoTime,
     had_key |-> FALSE, oldest_key |-> NoKey, oldest |-> NoEntry,
     expired_keys |-> {}, todo |-> {}, removed |-> FALSE, pre |-> EmptyMap, ev0 |-> 0,
     s_hits |-> 0, s_misses |-> 0, s_evictions |-> 0, s_total |-> 0,
     s_hit_rate |-> HitRate(0, 0)]

Call(p, op, k) == [Idle EXCEPT !.op = op, !.task = p, !.key = k]

\* A lone caller makes up to MaxOps calls, concurrent callers MaxConcOps in all.
CallBudget == IF Cardinality(callers) = 1 THEN MaxOps ELSE MaxConcOps

\* The cache treats tasks alike, so the first call of a run is task 1's.
CanCall(p) == p \in callers /\ pr[p].pc = "idle" /\ nops < CallBudget /\ (nops = 0 => p = 1)

\* The cache treats keys alike (they are opaque; the HashMap's order is left
\* open), so a run names its keys in the order of KeyOrder: a call may pass a
\* key passed before, or the first key not passed yet.
KeyOrder == <<"a", "b", "c">>
KeyIndex(k) == CHOOSE i \in 1..Len(KeyOrder) : KeyOrder[i] = k
CanPass(k) == KeyIndex(k) <= nkeys + 1
Passed(k) == IF KeyIndex(k) > nkeys THEN KeyIndex(k) ELSE nkeys

\* Variant of CanRead: read() is granted whoever holds the lock.
CanReadAnytime == TRUE

\* tokio RwLock: read() is granted when no writer holds the lock,
\* write() when nobody holds it.
CanRead == lock_writer = 0
\* Variant of CanWrite: write() is granted while read guards are out.
CanWriteDespiteReaders == lock_writer = 0

CanWrite == lock_writer = 0 /\ lock_readers = {}

\* Variant of Dropped: the read guard is kept.
DroppedNot(readers, p) == readers

\* get, line 52: drop(data), the read guard of task p is given up
Dropped(readers, p) == readers \ {p}

\* The call of task p returns: rec is its record at the return.
Return(p, rec) ==
    /\ pr' = [pr EXCEPT ![p] = Idle]
    /\ last' = [rec EXCEPT !.pc = "idle", !.value = None, !.ttl_seconds = NoTtl,
                           !.oldest = NoEntry, !.todo = {}, !.pre = EmptyMap, !.ev0 = 0]
    /\ gets' = IF rec.op # "get" THEN gets
               ELSE IF rec.ret # None THEN [gets EXCEPT !.some = @ + 1]
               ELSE [gets EXCEPT !.none = @ + 1]

\* Cache::new, lines 34-43, with the capacity taken from capacities
New(capacities) ==
    /\ data = EmptyMap
    /\ hits = 0
    /\ misses = 0
    /\ evictions = 0
    /\ max_entries \in capacities
    /\ default_ttl_seconds \in DefaultTtlChoices
    /\ now = 0
    /\ lock_readers = {}
    /\ lock_writer = 0
    /\ pr = [p \in Procs |-> Idle]
    /\ last = Idle
    /\ nops = 0
    /\ callers \in {{1}, Procs}
    /\ nkeys = 0
    /\ gets = [some |-> 0, none |-> 0]
    /\ purged = 0
    /\ lazy = 0
    /\ purged_keys = {}
    /\ stored = [k \in Keys |-> None]

Init == New(MaxEntriesChoices)

\* A cache built with max_entries == 0
InitZero == New({0})

\* The clock advances.
Tick ==
    /\ now < MaxTime
    /\ now' = now + 1
    /\ UNCHANGED <<stored, purged_keys, lazy, purged, data, hits, misses, evictions, max_entries, default_ttl_seconds, callers, nkeys,
                   lock_readers, lock_writer, pr, last, nops, gets>>

\* ------------------------------------------------------------------ get
\* get, lines 46-52: take the read guard, look the key up, check expiry.  On the
\* expired path the guard is dropped (line 52) before remove is awaited.
GetRead(p, k) ==
    /\ CanCall(p)
    /\ CanRead
    /\ CanPass(k)
    /\ nkeys' = Passed(k)
    /\ nops' = nops + 1
    /\ LET base == [Call(p, "get", k) EXCEPT !.tchk = now] IN
       IF k \notin DOMAIN data
       THEN /\ pr' = [pr EXCEPT ![p] = [base EXCEPT !.pc = "g_miss"]]
            /\ lock_readers' = lock_readers \cup {p}
       ELSE IF IsExpired(data[k], now)
       THEN /\ pr' = [pr EXCEPT ![p] = [base EXCEPT !.pc = "g_remove", !.entry = data[k],
                                                    !.had_key = TRUE]]
            /\ lock_readers' = Dropped(lock_readers \cup {p}, p)
       ELSE /\ pr' = [pr EXCEPT ![p] = [base EXCEPT !.pc = "g_hit", !.entry = data[k],
                                                    !.had_key = TRUE]]
            /\ lock_readers' = lock_readers \cup {p}
    /\ UNCHANGED <<stored, purged_keys, lazy, purged, data, hits, misses, evictions, max_entries, default_ttl_seconds, callers,
                   now, lock_writer, last, gets>>

\* Variant of GetHit: a hit refreshes the entry's created_at (true LRU).
GetHitRefreshing(p) ==
    /\ pr[p].pc = "g_hit"
    /\ hits' = Incr(hits)
    /\ data' = [data EXCEPT ![pr[p].key].created_at = now]
    /\ Return(p, [pr[p] EXCEPT !.ret = pr[p].entry.data])
    /\ lock_readers' = lock_readers \ {p}
    /\ UNCHANGED <<stored, purged_keys, lazy, purged, misses, evictions, max_entries, default_ttl_seconds, callers, nkeys,
                   now, lock_writer, nops>>

\* get, lines 59-60: *self.hits.write().await += 1; Some(entry.data.clone());
\* the read guard is dropped on return.
GetHit(p) ==
    /\ pr[p].pc = "g_hit"
    /\ hits' = Incr(hits)
    /\ Return(p, [pr[p] EXCEPT !.ret = pr[p].entry.data])
    /\ lock_readers' = lock_readers \ {p}
    /\ UNCHANGED <<stored, purged_keys, lazy, purged, data, misses, evictions, max_entries, default_ttl_seconds, callers, nkeys,
                   now, lock_writer, nops>>

\* get, lines 62-63: *self.misses.write().await += 1; None
GetMiss(p) ==
    /\ pr[p].pc = "g_miss"
    /\ misses' = Incr(misses)
    /\ Return(p, [pr[p] EXCEPT !.ret = None])
    /\ lock_readers' = lock_readers \ {p}
    /\ UNCHANGED <<stored, purged_keys, lazy, purged, data, hits, evictions, max_entries, default_ttl_seconds, callers, nkeys,
                   now, lock_writer, nops>>

\* get, line 53: self.remove(key).await, i.e. remove's lines 102-103 under the
\* write guard; the value remove returns is discarded.
GetRemove(p) ==
    /\ pr[p].pc = "g_remove"
    /\ CanWrite
    /\ data' = MapRemove(data, pr[p].key)
    /\ pr' = [pr EXCEPT ![p].pc = "g_expmiss", ![p].removed = pr[p].key \in DOMAIN data]
    /\ lazy' = IF pr[p].key \in DOMAIN data THEN lazy + 1 ELSE lazy
    /\ purged_keys' = IF pr[p].key \in DOMAIN data THEN purged_keys \cup {pr[p].key} ELSE purged_keys
    /\ stored' = stored
    /\ UNCHANGED <<purged, hits, misses, evictions, max_entries, default_ttl_seconds, callers, nkeys,
                   now, lock_readers, lock_writer, last, nops, gets>>

\* Variant of GetExpMiss: the get counts an eviction for the expired entry it
\* saw, whoever removed it.
GetExpMissCounting(p) ==
    /\ pr[p].pc = "g_expmiss"
    /\ misses' = Incr(misses)
    /\ evictions' = Incr(evictions)
    /\ Return(p, [pr[p] EXCEPT !.ret = None])
    /\ UNCHANGED <<stored, purged_keys, lazy, purged, data, hits, max_entries, default_ttl_seconds, callers, nkeys,
                   now, lock_readers, lock_writer, nops>>

\* get, lines 54-55: *self.misses.write().await += 1; return None
GetExpMiss(p) ==
    /\ pr[p].pc = "g_expmiss"
    /\ misses' = Incr(misses)
    /\ Return(p, [pr[p] EXCEPT !.ret = None])
    /\ UNCHANGED <<stored, purged_keys, lazy, purged, data, hits, evictions, max_entries, default_ttl_seconds, callers, nkeys,
                   now, lock_readers, lock_writer, nops>>

\* Variant of InsertNew: an overwrite keeps the created_at of the entry it
\* replaces.
InsertNewKeepingAge(m, k, value, ttl_seconds, d) ==
    IF k \in DOMAIN m
    THEN MapInsert(m, k, [NewEntry(value, ttl_seconds, now, now + d)
                            EXCEPT !.created_at = m[k].created_at])
    ELSE MapInsert(m, k, NewEntry(value, ttl_seconds, now, now + d))

\* --------------------------------------------------------- set_with_ttl
\* set_with_ttl, lines 85-98, reached with the write guard held: build the entry
\* and insert it.  The clock is read on line 87 and again on line 94 and may
\* have advanced by d in between (only line 94 reads it when the ttl is 0).
InsertNew(m, k, value, ttl_seconds, d) ==
    MapInsert(m, k, NewEntry(value, ttl_seconds, now, now + d))

Skews(ttl_seconds) ==
    IF EffectiveTtl(ttl_seconds) > 0 THEN {d \in SkewChoices : now + d <= MaxTime} ELSE {0}

\* set_with_ttl, lines 72-80 and, when nothing is evicted, on to line 98.
\* With an eviction the task stops at the await of line 81, write guard held.
SetWithTtl(p, k, value, ttl_seconds) ==
    /\ CanCall(p)
    /\ CanWrite
    /\ CanPass(k)
    /\ nkeys' = Passed(k)
    /\ nops' = nops + 1
    /\ LET base == [Call(p, "set_with_ttl", k) EXCEPT !.value = value,
                        !.ttl_seconds = ttl_seconds, !.had_key = k \in DOMAIN data] IN
       IF NeedsEviction(data, k) /\ OldestKeys(data) # {}
       THEN \E o \in OldestKeys(data) :
              /\ data' = MapRemove(data, o)
              /\ pr' = [pr EXCEPT ![p] = [base EXCEPT !.pc = "s_evict", !.oldest_key = o,
                                                      !.oldest = data[o]]]
              /\ lock_writer' = p
              /\ purged' = purged + 1
              /\ UNCHANGED <<now, last, gets, purged_keys, stored>>
       ELSE \E d \in Skews(ttl_seconds) :
              /\ data' = InsertNew(data, k, value, ttl_seconds, d)
              /\ Return(p, base)
              /\ lock_writer' = lock_writer
              /\ now' = now + d
              /\ purged' = purged
              /\ purged_keys' = purged_keys \ {k}
              /\ stored' = [stored EXCEPT ![k] = value]
    /\ UNCHANGED <<lazy, hits, misses, evictions, max_entries, default_ttl_seconds, callers, lock_readers>>

\* set, lines 67-69: self.set_with_ttl(key, value, None).await
Set(p, k, value) == SetWithTtl(p, k, value, NoTtl)

\* set_with_ttl, lines 81-98 after an eviction: bump evictions, insert, and
\* drop the write guard on return.
SetEvict(p) ==
    /\ pr[p].pc = "s_evict"
    /\ evictions' = Incr(evictions)
    /\ \E d \in Skews(pr[p].ttl_seconds) :
          /\ data' = InsertNew(data, pr[p].key, pr[p].value, pr[p].ttl_seconds, d)
          /\ now' = now + d
    /\ Return(p, pr[p])
    /\ lock_writer' = 0
    /\ purged_keys' = purged_keys \ {pr[p].key}
    /\ stored' = [stored EXCEPT ![pr[p].key] = pr[p].value]
    /\ UNCHANGED <<lazy, purged, hits, misses, max_entries, default_ttl_seconds, callers, nkeys, lock_readers, nops>>

\* --------------------------------------------------------------- remove
\* remove, lines 101-104
Remove(p, k) ==
    /\ CanCall(p)
    /\ CanWrite
    /\ CanPass(k)
    /\ nkeys' = Passed(k)
    /\ nops' = nops + 1
    /\ data' = MapRemove(data, k)
    /\ Return(p, [Call(p, "remove", k) EXCEPT !.had_key = k \in DOMAIN data,
                     !.ret = IF k \in DOMAIN data THEN data[k].data ELSE None])
    /\ UNCHANGED <<stored, purged_keys, lazy, purged, hits, misses, evictions, max_entries, default_ttl_seconds, callers,
                   now, lock_readers, lock_writer>>

\* ---------------------------------------------------------------- clear
\* clear, lines 106-109
Clear(p) ==
    /\ CanCall(p)
    /\ CanWrite
    /\ nops' = nops + 1
    /\ data' = Cleared(data)
    /\ Return(p, Call(p, "clear", NoKey))
    /\ UNCHANGED <<stored, purged_keys, lazy, purged, hits, misses, evictions, max_entries, default_ttl_seconds, callers, nkeys,
                   now, lock_readers, lock_writer>>

\* ------------------------------------------------------ cleanup_expired
\* cleanup_expired, lines 112-125: take the write guard, read the clock, collect
\* the expired keys and remove the first of them; the task then stops at the
\* await of line 126.  With nothing expired the call returns at once.
CleanupExpired(p) ==
    /\ CanCall(p)
    /\ CanWrite
    /\ nops' = nops + 1
    /\ LET expired == ExpiredKeys(data, now)
           base == [Call(p, "cleanup_expired", NoKey) EXCEPT !.tchk = now,
                        !.expired_keys = expired, !.pre = data, !.ev0 = evictions] IN
       IF expired = {}
       THEN /\ Return(p, base)
            /\ UNCHANGED <<data, lock_writer, purged, purged_keys>>
       ELSE \E k \in expired :
              /\ data' = MapRemove(data, k)
              /\ purged_keys' = purged_keys \cup {k}
              /\ pr' = [pr EXCEPT ![p] = [base EXCEPT !.pc = "c_loop", !.todo = expired \ {k}]]
              /\ lock_writer' = p
              /\ purged' = purged + 1
              /\ UNCHANGED <<last, gets>>
    /\ UNCHANGED <<stored, lazy, hits, misses, evictions, max_entries, default_ttl_seconds, callers, nkeys,
                   now, lock_readers>>

\* cleanup_expired, lines 124-127: bump evictions for the key just removed, then
\* remove the next key of expired_keys, or return and drop the write guard.
CleanupStep(p) ==
    /\ pr[p].pc = "c_loop"
    /\ evictions' = Incr(evictions)
    /\ IF pr[p].todo = {}
       THEN /\ Return(p, pr[p])
            /\ lock_writer' = 0
            /\ data' = data
            /\ purged' = purged
            /\ purged_keys' = purged_keys
       ELSE \E k \in pr[p].todo :
              /\ data' = MapRemove(data, k)
              /\ purged_keys' = purged_keys \cup {k}
              /\ pr' = [pr EXCEPT ![p].todo = pr[p].todo \ {k}]
              /\ lock_writer' = lock_writer
              /\ purged' = purged + 1
              /\ UNCHANGED <<last, gets>>
    /\ UNCHANGED <<stored, lazy, hits, misses, max_entries, default_ttl_seconds, callers, nkeys, now, lock_readers, nops>>

\* ------------------------------------------------------------ get_stats
\* get_stats, lines 131-132: take the read guard of data, read hits
StatsBegin(p) ==
    /\ CanCall(p)
    /\ CanRead
    /\ nops' = nops + 1
    /\ pr' = [pr EXCEPT ![p] = [Call(p, "get_stats", NoKey) EXCEPT !.pc = "st_misses",
                                                                   !.s_hits = hits]]
    /\ lock_readers' = lock_readers \cup {p}
    /\ UNCHANGED <<stored, purged_keys, lazy, purged, data, hits, misses, evictions, max_entries, default_ttl_seconds, callers, nkeys,
                   now, lock_writer, last, gets>>

\* get_stats, line 133: read misses
StatsMisses(p) ==
    /\ pr[p].pc = "st_misses"
    /\ pr' = [pr EXCEPT ![p].pc = "st_evictions", ![p].s_misses = misses]
    /\ UNCHANGED <<stored, purged_keys, lazy, purged, data, hits, misses, evictions, max_entries, default_ttl_seconds, callers, nkeys,
                   now, lock_readers, lock_writer, last, nops, gets>>

\* get_stats, lines 134-154: read evictions, build the CacheStats, return.
\* (memory_size_bytes, lines 144 and 152, is total_entries times a constant and
\* is not carried.)
StatsEvictions(p) ==
    /\ pr[p].pc = "st_evictions"
    /\ Return(p, [pr[p] EXCEPT !.s_evictions = evictions, !.s_total = MapLen(data),
                               !.s_hit_rate = HitRate(pr[p].s_hits, pr[p].s_misses)])
    /\ lock_readers' = lock_readers \ {p}
    /\ UNCHANGED <<stored, purged_keys, lazy, purged, data, hits, misses, evictions, max_entries, default_ttl_seconds, callers, nkeys,
                   now, lock_writer, nops>>

Next ==
    \/ Tick
    \/ \E p \in Procs, k \in Keys : GetRead(p, k)
    \/ \E p \in Procs : GetHit(p)
    \/ \E p \in Procs : GetMiss(p)
    \/ \E p \in Procs : GetRemove(p)
    \/ \E p \in Procs : GetExpMiss(p)
    \/ \E p \in Procs, k \in Keys : Set(p, k, nops + 1)
    \/ \E p \in Procs, k \in Keys, t \in TtlArgs \ {NoTtl} : SetWithTtl(p, k, nops + 1, t)
    \/ \E p \in Procs : SetEvict(p)
    \/ \E p \in Procs, k \in Keys : Remove(p, k)
    \/ \E p \in Procs : Clear(p)
    \/ \E p \in Procs : CleanupExpired(p)
    \/ \E p \in Procs : CleanupStep(p)
    \/ \E p \in Procs : StatsBegin(p)
    \/ \E p \in Procs : StatsMisses(p)
    \/ \E p \in Procs : StatsEvictions(p)

Spec == Init /\ [][Next]_vars

SpecZero == InitZero /\ [][Next]_vars

\* The steps with which task p continues a call it has started.  All but
\* GetRemove are enabled whenever the task is at them: they wait for a counter
\* lock only, which its holder gives up at the end of the one statement that took
\* it.  GetRemove waits for the write guard of data.
Continue(p) ==
    \/ GetHit(p) \/ GetMiss(p) \/ GetRemove(p) \/ GetExpMiss(p) \/ SetEvict(p)
    \/ CleanupStep(p) \/ StatsMisses(p) \/ StatsEvictions(p)

\* Two tasks call the cache concurrently (a lone caller never waits for a lock);
\* the default ttl is 1, so that set stores entries that expire and
\* set_with_ttl(.., Some(0)) entries that do not.
InitFair == Init /\ callers = Procs /\ default_ttl_seconds = 1

\* Fair scheduling: the runtime polls every task whose await can complete, and
\* the tokio RwLock serves its waiters in order; a task that can continue for
\* good does continue.
\* One caller, with ttl_seconds drawn from the whole width of the u64.
InitTtl == Init /\ callers = {1}

NextTtl ==
    \/ Tick
    \/ \E p \in Procs, k \in Keys : GetRead(p, k)
    \/ \E p \in Procs : GetHit(p)
    \/ \E p \in Procs : GetMiss(p)
    \/ \E p \in Procs : GetRemove(p)
    \/ \E p \in Procs : GetExpMiss(p)
    \/ \E p \in Procs, k \in Keys : Set(p, k, nops + 1)
    \/ \E p \in Procs, k \in Keys, t \in WideTtlArgs \ {NoTtl} : SetWithTtl(p, k, nops + 1, t)
    \/ \E p \in Procs : SetEvict(p)
    \/ \E p \in Procs : CleanupExpired(p)
    \/ \E p \in Procs : CleanupStep(p)

SpecTtl == InitTtl /\ [][NextTtl]_vars

SpecFair == InitFair /\ [][Next]_vars /\ \A p \in Procs : WF_vars(Continue(p))

\* ======================================================================
\* Claims
\* ======================================================================

\* The spec's notion of expiry (data model, second invariant): expires_at is
\* set and the time t is strictly after it.
PastExpiry(entry, t) == entry.expires_at # NoTime /\ t > entry.expires_at

\* The last call returned and nothing but the clock has moved since.
Quiet == \A p \in Procs : pr[p].pc = "idle"

\* A step in which task p starts a call that does not return in this step.
Suspends(p) == pr[p].pc = "idle" /\ pr'[p].pc # "idle"

\* A step in which task p starts a call, returning in this step or not.
Starts(p) ==
    /\ nops' = nops + 1
    /\ pr[p].pc = "idle"
    /\ Suspends(p) \/ (last'.task = p /\ \A q \in Procs : ~Suspends(q))

\* The record of the call task p starts in this step.
Started(p) == IF Suspends(p) THEN pr'[p] ELSE last'

\* C1: for a cache built with max_entries >= 1, whenever no task holds the write
\* guard of data, the map holds at most max_entries keys.
C1_CapacityBound ==
    (lock_writer = 0 /\ max_entries >= 1) => MapLen(data) <= max_entries

\* C1 witness: a full cache right after an insertion that had to evict.
C1_Witness ==
    /\ lock_writer = 0
    /\ max_entries >= 1
    /\ MapLen(data) = max_entries
    /\ last.op = "set_with_ttl"
    /\ last.oldest_key # NoKey
    /\ evictions >= 1

\* C2: set_with_ttl with a key that is not present, on a map of max_entries or
\* more entries (max_entries >= 1), removes exactly one entry before the insert,
\* one whose created_at is <= that of every entry present, and raises evictions
\* by exactly 1; the insert then adds the new key and nothing else changes.
C2_EvictsOneOldest ==
    [][\A p \in Procs :
        /\ (/\ Starts(p)
            /\ Started(p).op = "set_with_ttl"
            /\ Started(p).key \notin DOMAIN data
            /\ MapLen(data) >= max_entries
            /\ max_entries >= 1)
           => /\ pr'[p].pc = "s_evict"
              /\ \E o \in DOMAIN data :
                   /\ DOMAIN data' = (DOMAIN data) \ {o}
                   /\ \A kk \in DOMAIN data : data[o].created_at <= data[kk].created_at
                   /\ \A kk \in DOMAIN data' : data'[kk] = data[kk]
              /\ evictions' = evictions
        /\ (pr[p].pc = "s_evict" /\ pr'[p].pc # "s_evict")
           => /\ evictions' = evictions + 1
              /\ DOMAIN data' = (DOMAIN data) \cup {pr[p].key}
              /\ \A kk \in DOMAIN data : data'[kk] = data[kk]
              /\ data'[pr[p].key].data = pr[p].value
              /\ pr'[p].pc = "idle"
    ]_vars

\* C2 witness: max_entries = 2, the keys a, b, c inserted in this order, a
\* evicted, b and c present, evictions = 1.
C2_Witness ==
    /\ max_entries = 2
    /\ last.op = "set_with_ttl"
    /\ last.key = "c"
    /\ last.oldest_key = "a"
    /\ DOMAIN data = {"b", "c"}
    /\ evictions = 1
    /\ Quiet

\* C3: a get never returns the value of an entry that is past its expiry at the
\* moment get checks it (tchk), whether or not the entry is still in the map.
C3_ExpiredNeverReturned ==
    /\ \A p \in Procs : pr[p].pc = "g_hit" => ~PastExpiry(pr[p].entry, pr[p].tchk)
    /\ (last.op = "get" /\ last.had_key /\ PastExpiry(last.entry, last.tchk))
          => last.ret = None

\* C3 witness: a get that found its key in the map, past its expiry, and
\* returned nothing.
C3_Witness ==
    /\ last.op = "get"
    /\ last.had_key
    /\ PastExpiry(last.entry, last.tchk)
    /\ last.ret = None

\* C4 as claimed: a get on an entry built with ttl t > 0 returns the value when
\* it reads before created_at + t and nothing when it reads at or after
\* created_at + t.
C4_Original ==
    (last.op = "get" /\ last.had_key /\ last.entry.ttl > 0)
    => /\ last.tchk < last.entry.created_at + last.entry.ttl => last.ret = last.entry.data
       /\ last.tchk >= last.entry.created_at + last.entry.ttl => last.ret = None

\* C4 as amended: the entry's expires_at is the clock read just before
\* created_at, plus t, hence at most created_at + t; a get returns the value
\* when it reads at or before expires_at and nothing when it reads strictly
\* after expires_at.
C4_ExpiryBoundary ==
    /\ \A k \in DOMAIN data :
         data[k].ttl > 0 => /\ data[k].expires_at # NoTime
                            /\ data[k].expires_at <= data[k].created_at + data[k].ttl
    /\ (last.op = "get" /\ last.had_key /\ last.entry.ttl > 0)
       => /\ last.tchk <= last.entry.expires_at => last.ret = last.entry.data
          /\ last.tchk > last.entry.expires_at => last.ret = None

\* C4 witness: a get that read exactly at expires_at and returned the value.
C4_Witness ==
    /\ last.op = "get"
    /\ last.had_key
    /\ last.entry.ttl > 0
    /\ last.tchk = last.entry.expires_at
    /\ last.ret = last.entry.data
    /\ last.ret # None

\* C5 as claimed: the lazy removal done by get counts as an eviction: the step of
\* get that removes the expired entry raises evictions by exactly 1, and the
\* get then raises misses by exactly 1 and returns nothing.
C5_LazyExpiryCountsEviction ==
    [][\A p \in Procs :
        /\ (GetRemove(p) /\ pr[p].key \in DOMAIN data) => evictions' = evictions + 1
        /\ GetExpMiss(p) => (misses' = misses + 1 /\ last'.ret = None)
    ]_vars

\* C6: set / set_with_ttl on a key that is present removes no other entry,
\* leaves the set of keys (hence the number of entries) and evictions as they
\* were, and returns without an eviction step, also when the map is full.
C6_OverwriteIsFree ==
    [][\A p \in Procs :
        (/\ Starts(p)
         /\ Started(p).op = "set_with_ttl"
         /\ Started(p).key \in DOMAIN data)
        => /\ DOMAIN data' = DOMAIN data
           /\ \A kk \in (DOMAIN data) \ {Started(p).key} : data'[kk] = data[kk]
           /\ data'[Started(p).key].data = nops + 1
           /\ evictions' = evictions
           /\ pr'[p].pc = "idle"
           /\ last'.oldest_key = NoKey
    ]_vars

\* C6 witness: an overwrite that returned on a full map of two entries, with
\* nothing evicted so far.
C6_Witness ==
    /\ last.op = "set_with_ttl"
    /\ last.had_key
    /\ max_entries = 2
    /\ MapLen(data) = max_entries
    /\ last.key \in DOMAIN data
    /\ evictions = 0
    /\ Quiet

\* C7: on a fresh cache, hits is the number of gets that returned a value and
\* misses the number of gets that returned nothing, in every state of every
\* interleaving.
C7_HitMissAccounting ==
    /\ hits = gets.some
    /\ misses = gets.none

\* C7 witness: two concurrent callers, gets of both outcomes have returned,
\* among them one on the lazy-expiry path.
C7_Witness ==
    /\ callers = Procs
    /\ gets.some >= 1
    /\ gets.none >= 1
    /\ last.op = "get"
    /\ last.had_key
    /\ last.ret = None

\* C8: no step of any operation lowers hits, misses or evictions; clear leaves
\* the map empty and the three counters as they were.
C8_CountersMonotonic ==
    [][/\ hits' >= hits
       /\ misses' >= misses
       /\ evictions' >= evictions
       /\ \A p \in Procs :
            Clear(p) => /\ DOMAIN data' = {}
                        /\ hits' = hits
                        /\ misses' = misses
                        /\ evictions' = evictions
    ]_vars

\* C8 witness: a clear has returned, the map is empty, and hits and evictions
\* still hold what the calls before the clear counted.
C8_Witness ==
    /\ last.op = "clear"
    /\ DOMAIN data = {}
    /\ hits >= 1
    /\ evictions >= 1
    /\ Quiet

\* The keys of m whose expires_at is set and strictly earlier than t.
StrictlyEarlier(m, t) == {k \in DOMAIN m : m[k].expires_at # NoTime /\ m[k].expires_at < t}

\* C9: cleanup_expired removes exactly the entries whose expires_at is set and
\* strictly earlier than the call time, leaves every other entry as it was,
\* raises evictions by the number of entries removed, and none of its steps
\* changes hits or misses.  (pre, tchk, ev0: the map, the clock and evictions
\* when the call took the write guard.)
C9_CleanupExact ==
    [][\A p \in Procs :
        (CleanupExpired(p) \/ CleanupStep(p))
        => LET pre0 == IF pr[p].pc = "c_loop" THEN pr[p].pre ELSE data
               t0 == IF pr[p].pc = "c_loop" THEN pr[p].tchk ELSE now
               e0 == IF pr[p].pc = "c_loop" THEN pr[p].ev0 ELSE evictions
               gone == StrictlyEarlier(pre0, t0)
           IN /\ hits' = hits
              /\ misses' = misses
              /\ (DOMAIN pre0) \ gone \subseteq DOMAIN data'
              /\ \A k \in DOMAIN data' : k \in DOMAIN pre0 /\ data'[k] = pre0[k]
              /\ pr'[p].pc = "idle"
                   => /\ DOMAIN data' = (DOMAIN pre0) \ gone
                      /\ evictions' = e0 + Cardinality(gone)
                      /\ last'.expired_keys = gone
    ]_vars

\* C9 witness: a cleanup_expired has returned that removed an entry and left in
\* place an entry with no expires_at and an entry whose expires_at is the call
\* time itself.
C9_Witness ==
    /\ last.op = "cleanup_expired"
    /\ last.expired_keys # {}
    /\ evictions >= Cardinality(last.expired_keys)
    /\ \E k \in DOMAIN data : data[k].expires_at = last.tchk
    /\ Quiet

\* C10 as claimed: no step of get's lazy-expiry path and no step of
\* cleanup_expired removes an entry whose effective ttl is 0.
C10_NoExpiryNeverRemoved ==
    [][\A p \in Procs :
        (GetRemove(p) \/ CleanupExpired(p) \/ CleanupStep(p))
        => \A k \in DOMAIN data :
             data[k].ttl = 0 => (k \in DOMAIN data' /\ data'[k] = data[k])
    ]_vars

\* A task that has removed an entry on line 80 or 125 and not yet counted it.
HalfDone(p) == pr[p].pc \in {"s_evict", "c_loop"}

\* A task that holds the read guard of data inside get or get_stats.
Reading(p) == pr[p].pc \in {"g_hit", "g_miss", "st_misses", "st_evictions"}

C12_EveryCallReturns ==
    /\ [](Quiet => (lock_writer = 0 /\ lock_readers = {}))
    /\ \A p \in Procs : (pr[p].pc # "idle") ~> (pr[p].pc = "idle")

\* C12 witness: a get on its expired path waits for the write guard while the
\* other task holds the read guard.
C12_Witness ==
    \E p, q \in Procs :
        /\ pr[p].pc = "g_remove"
        /\ q \in lock_readers
        /\ pr[q].pc \in {"g_hit", "g_miss", "st_misses", "st_evictions"}

\* C13: at most one task is inside a map-mutating section, none while a get or
\* get_stats holds the read guard; and every step that changes the map is taken
\* while no task reads it, by the task that holds the write guard if one does.
C13_WritersExclusive ==
    /\ [](/\ Cardinality({p \in Procs : HalfDone(p)}) <= 1
          /\ \A p \in Procs : HalfDone(p) => (lock_writer = p /\ lock_readers = {})
          /\ \A p \in Procs : Reading(p) => (p \in lock_readers /\ lock_writer = 0))
    /\ [][data' # data
            => /\ lock_readers = {}
               /\ \A q \in Procs : ~Reading(q)
               /\ \A q \in Procs : HalfDone(q) => pr'[q] # pr[q]
       ]_vars

\* C13 witness: a get on its expired path waits to remove its key while the
\* other task is inside set_with_ttl or cleanup_expired with the write guard.
C13_Witness ==
    \E p, q \in Procs :
        /\ pr[p].pc = "g_remove"
        /\ HalfDone(q)
        /\ lock_writer = q

\* C14: no step of a get that hits, or that misses on an absent key, changes
\* the map: every entry, its created_at included, stays as it was, and with it
\* the set of entries the next capacity eviction may choose.
C14_GetLeavesMap ==
    [][\A p \in Procs :
        (\/ Starts(p) /\ Started(p).op = "get" /\ Started(p).pc # "g_remove"
         \/ pr[p].pc \in {"g_hit", "g_miss"} /\ pr'[p].pc = "idle")
        => /\ data' = data
           /\ OldestKeys(data') = OldestKeys(data)
    ]_vars

\* C14 witness: a get has just hit the strictly oldest entry of a full map of
\* two, after the clock has moved on, and that entry is still the one the next
\* capacity eviction chooses.
C14_Witness ==
    /\ last.op = "get"
    /\ last.ret # None
    /\ max_entries = 2
    /\ MapLen(data) = 2
    /\ OldestKeys(data) = {last.key}
    /\ last.tchk > data[last.key].created_at
    /\ Quiet

\* C15: remove(key) returns in one step under the write guard; if the key is
\* present it is deleted and its value returned, if it is absent nothing is
\* returned and the map is left as it was; every other entry stays in place and
\* hits, misses and evictions are unchanged.
C15_RemoveFrame ==
    [][\A p \in Procs :
        (Starts(p) /\ Started(p).op = "remove")
        => LET k == last'.key IN
           /\ pr'[p].pc = "idle"
           /\ DOMAIN data' = (DOMAIN data) \ {k}
           /\ \A kk \in DOMAIN data' : data'[kk] = data[kk]
           /\ k \in DOMAIN data => (last'.ret = data[k].data /\ last'.ret # None)
           /\ k \notin DOMAIN data => (last'.ret = None /\ data' = data)
           /\ hits' = hits
           /\ misses' = misses
           /\ evictions' = evictions
    ]_vars

\* C15 witness: a remove has returned the value of a key that was present, and
\* another entry is still in the map.
C15_Witness ==
    /\ last.op = "remove"
    /\ last.had_key
    /\ last.ret # None
    /\ last.key \notin DOMAIN data
    /\ MapLen(data) >= 1
    /\ Quiet

\* C16 as claimed: on a cache built with max_entries == 0, every set_with_ttl
\* of a key that is not present performs an eviction and raises evictions by 1,
\* the first insertion into the empty cache included.
C16_ZeroCapacityAlwaysEvicts ==
    [][\A p \in Procs :
        /\ (/\ max_entries = 0
            /\ Starts(p)
            /\ Started(p).op = "set_with_ttl"
            /\ Started(p).key \notin DOMAIN data)
           => /\ pr'[p].pc = "s_evict"
              /\ purged' = purged + 1
        /\ (max_entries = 0 /\ pr[p].pc = "s_evict" /\ pr'[p].pc = "idle")
           => evictions' = evictions + 1
    ]_vars

\* C17 as claimed: on a cache built with max_entries == 0, whenever no task
\* holds the write guard (every insertion made so far has completed), the map
\* holds at most max_entries entries, that is none.
C17_ZeroCapacityBound ==
    (max_entries = 0 /\ lock_writer = 0) => MapLen(data) <= max_entries

\* C18 as claimed: a set_with_ttl that returns has stored under its key an
\* entry whose expires_at is the clock read on line 87 plus the override when
\* one is given, plus default_ttl_seconds otherwise, and no expires_at exactly
\* when that effective ttl is 0; set stores what set_with_ttl stores with no
\* override.
C18_ExpiresAtIsNowPlusTtl ==
    [][\A p \in Procs, k \in Keys, t \in WideTtlArgs :
        ((SetWithTtl(p, k, nops + 1, t) \/ (SetEvict(p) /\ pr[p].key = k /\ pr[p].ttl_seconds = t))
         /\ pr'[p].pc = "idle")
        => LET ttl == IF t = NoTtl THEN default_ttl_seconds ELSE t IN
           /\ k \in DOMAIN data'
           /\ ttl = 0 <=> data'[k].expires_at = NoTime
           /\ ttl > 0 => data'[k].expires_at = now + ttl
           /\ (t = NoTtl /\ Set(p, k, nops + 1)) => data'[k].expires_at = ExpiresAt(default_ttl_seconds, now)
    ]_vars

\* C19: no step of get_stats changes the map or a counter.  hits and misses
\* are returned as read from the counters on lines 132 and 133; evictions and
\* total_entries are the counter and the number of keys at the return, and at
\* every moment of the call, since neither can change while the call holds its
\* read guard; hit_rate is 100 * hits / (hits + misses) of the returned hits and
\* misses, 0 when both are 0.  With no other caller the returned hits and
\* misses are the counters at the return; when get_stats is the first call on
\* the cache every field is 0.
C19_StatsExact ==
    [][\A p \in Procs :
        /\ (Starts(p) /\ Started(p).op = "get_stats")
           => /\ pr'[p].pc = "st_misses"
              /\ pr'[p].s_hits = hits
              /\ UNCHANGED <<data, hits, misses, evictions>>
        /\ pr[p].pc \in {"st_misses", "st_evictions"}
           => (data' = data /\ evictions' = evictions)
        /\ (pr[p].pc = "st_misses" /\ pr'[p].pc # "st_misses")
           => /\ pr'[p].pc = "st_evictions"
              /\ pr'[p].s_misses = misses
              /\ pr'[p].s_hits = pr[p].s_hits
              /\ UNCHANGED <<hits, misses>>
        /\ (pr[p].pc = "st_evictions" /\ pr'[p].pc # "st_evictions")
           => LET h == pr[p].s_hits
                  m == pr[p].s_misses
              IN /\ pr'[p].pc = "idle"
                 /\ UNCHANGED <<hits, misses>>
                 /\ last'.s_hits = h
                 /\ last'.s_misses = m
                 /\ last'.s_evictions = evictions'
                 /\ last'.s_total = MapLen(data')
                 /\ last'.s_hit_rate.den > 0
                 /\ h + m > 0 => last'.s_hit_rate.num * (h + m) = 100 * h * last'.s_hit_rate.den
                 /\ h + m = 0 => last'.s_hit_rate.num = 0
                 /\ callers = {p} => (h = hits' /\ m = misses')
                 /\ nops = 1 => /\ h = 0 /\ m = 0
                                /\ last'.s_evictions = 0
                                /\ last'.s_total = 0
                                /\ last'.s_hit_rate.num = 0
    ]_vars

\* C19 witness: a get_stats has returned one hit, one miss and one entry, with a
\* hit_rate of 50.
C19_Witness ==
    /\ last.op = "get_stats"
    /\ last.s_hits = 1
    /\ last.s_misses = 1
    /\ last.s_total >= 1
    /\ last.s_hit_rate.num = 50 * last.s_hit_rate.den
    /\ hits = 1
    /\ misses = 1
    /\ Quiet

\* C20: evictions never exceeds the number of entries removed by a capacity
\* eviction (line 80), by cleanup_expired (line 125) or by a lazy-expiry get
\* (line 53).  More exactly, every entry removed on line 80 or 125 is counted
\* once, by the task that removed it, as soon as that task has passed line 81
\* or 126, and nothing else is counted: a get that finds its expired key already
\* removed by cleanup_expired adds nothing.
C20_OnlyRemoverCounts ==
    /\ evictions <= purged + lazy
    /\ evictions + Cardinality({p \in Procs : HalfDone(p)}) = purged

\* C20 witness: a get saw its key expired, cleanup_expired then removed and
\* counted the entry, and the get, finding nothing left to remove, has returned:
\* evictions is 1.
C20_Witness ==
    /\ callers = Procs
    /\ last.op = "get"
    /\ last.had_key
    /\ PastExpiry(last.entry, last.tchk)
    /\ ~last.removed
    /\ DOMAIN data = {}
    /\ lazy = 0
    /\ purged = 1
    /\ evictions = 1
    /\ Quiet

\* C21: a key removed as expired, by a lazy-expiry get (line 53) or by
\* cleanup_expired (line 125), is absent from the map until set / set_with_ttl
\* inserts it again; a get on such a key finds nothing and is never on its way
\* to return a value.
C21_PurgedStaysGone ==
    /\ purged_keys \cap DOMAIN data = {}
    /\ \A p \in Procs :
         (pr[p].op = "get" /\ pr[p].key \in purged_keys)
         => /\ pr[p].pc \in {"g_miss", "g_remove", "g_expmiss"}
            /\ pr[p].pc = "g_miss" => ~pr[p].had_key

\* C21 witness: a get that started after its key was removed as expired, with
\* no insertion since, found no entry and has returned nothing.
C21_Witness ==
    /\ last.op = "get"
    /\ last.key \in purged_keys
    /\ ~last.had_key
    /\ last.ret = None
    /\ lazy + purged >= 1
    /\ Quiet

\* C22: every entry in the map holds the value of the last insert under its
\* key; a get that is about to return a value holds the read guard, its key is
\* in the map and the value it will return is that of the last insert under the
\* key; the step that returns it raises hits by 1, and no other step of a get
\* returns a value.
C22_GetReturnsLastStored ==
    /\ [](/\ \A k \in DOMAIN data : data[k].data = stored[k] /\ stored[k] # None
          /\ \A p \in Procs :
               pr[p].pc = "g_hit"
               => /\ pr[p].key \in DOMAIN data
                  /\ pr[p].entry = data[pr[p].key]
                  /\ pr[p].entry.data = stored[pr[p].key])
    /\ [][\A p \in Procs :
            (pr[p].op = "get" /\ pr'[p].pc = "idle" /\ last'.ret # None)
            => /\ pr[p].pc = "g_hit"
               /\ last'.key = pr[p].key
               /\ last'.ret = stored[pr[p].key]
               /\ last'.ret = data'[pr[p].key].data
               /\ hits' = hits + 1
       ]_vars

\* C22 witness: with max_entries = 1, a was inserted, the insert of b evicted it,
\* and a get of b has returned the value stored under b.
C22_Witness ==
    /\ max_entries = 1
    /\ nops = 3
    /\ last.op = "get"
    /\ last.key = "b"
    /\ last.ret = 2
    /\ last.ret = stored["b"]
    /\ stored["a"] = 1
    /\ DOMAIN data = {"b"}
    /\ evictions = 1
    /\ hits = 1
    /\ Quiet

\* C23 as claimed: the step with which a get on its lazy-expiry path calls
\* remove takes out of the map only the entry the get saw expired, and never an
\* entry that is not expired when it is removed.
C23_LazyExpiryRemovesOnlyExpired ==
    [][\A p \in Procs :
        (pr[p].pc = "g_remove" /\ pr'[p].pc = "g_expmiss")
        => \A k \in DOMAIN data \ DOMAIN data' :
             /\ data[k] = pr[p].entry
             /\ IsExpired(data[k], now)
    ]_vars

\* C24 as claimed: a get_stats never reads misses (line 133), with the map it
\* counts for total_entries under its read guard, while a get has removed its
\* expired entry on line 53 and not yet counted the miss on line 54.
C24_RemovalAndMissOneStep ==
    [][\A p \in Procs :
        (pr[p].pc = "st_misses" /\ pr'[p].pc = "st_evictions")
        => ~\E q \in Procs :
              /\ pr[q].pc = "g_expmiss"
              /\ pr[q].removed
              /\ pr[q].key \notin DOMAIN data
    ]_vars

\* C25: set / set_with_ttl on a key that is present puts a wholly new entry
\* under it: the value passed, created_at the clock at the insert, the ttl in
\* force for this call, and expires_at the clock of the call plus that ttl, or
\* none when that ttl is 0, whatever the replaced entry held; so whenever an
\* entry created strictly earlier is present, the overwritten key is not among
\* the keys a capacity eviction may pick.
C25_OverwriteReplacesWholesale ==
    [][\A p \in Procs :
        (/\ Starts(p)
         /\ Started(p).op = "set_with_ttl"
         /\ Started(p).key \in DOMAIN data)
        => LET k == Started(p).key IN
           /\ pr'[p].pc = "idle"
           /\ last'.had_key
           /\ data'[k].data = nops + 1
           /\ data'[k].created_at = now'
           /\ data'[k].created_at >= data[k].created_at
           /\ (\E kk \in (DOMAIN data) \ {k} : data[kk].created_at < now')
                 => k \notin OldestKeys(data')
           /\ \A t \in TtlArgs :
                SetWithTtl(p, k, nops + 1, t)
                => LET e == IF t = NoTtl THEN default_ttl_seconds ELSE t
                   IN /\ data'[k].ttl = e
                      /\ e > 0 => data'[k].expires_at = now + e
                      /\ e = 0 => data'[k].expires_at = NoTime
    ]_vars

\* C25 witness: with max_entries = 2, a was inserted, then b, then a was
\* overwritten at a later time with no expiry: a is now the newer entry, and b
\* alone is what the next capacity eviction would pick.
C25_Witness ==
    /\ max_entries = 2
    /\ last.op = "set_with_ttl"
    /\ last.key = "a"
    /\ last.had_key
    /\ nops = 3
    /\ DOMAIN data = {"a", "b"}
    /\ data["a"].data = 3
    /\ data["a"].expires_at = NoTime
    /\ stored["b"] = 2
    /\ data["b"].created_at < data["a"].created_at
    /\ OldestKeys(data) = {"b"}
    /\ Quiet

====
